---- MODULE Spec2Model ----
(***************************************************************************)
(* Instruction decoders of transaction-status: parse_system and parse_vote. *)
(*                                                                         *)
(* A decode call takes a CompiledInstruction (accounts: a list of u8       *)
(* account-table indices, data: the payload bytes) and the account_keys    *)
(* slice, and returns Ok(ParsedInstructionEnum) or Err(ParseInstruction-   *)
(* Error).  Rust slice indexing out of range panics; the model makes that  *)
(* a third outcome, "panic", so that bound safety is something TLC        *)
(* can refute.  Every deserialize, scan, arity check and index operation   *)
(* of a call is recorded, in program order, in the call's trace.           *)
(*                                                                         *)
(* Positions and indices are 0-based as in the source; At(s, i) reads a    *)
(* TLA+ sequence at a 0-based position.                                    *)
(*                                                                         *)
(* Spec runs one call at a time, each call one step.  SpecCalls runs       *)
(* several calls at once, each in the steps of its code (deserialize, one  *)
(* iteration of the scan for the maximum index, the match on the maximum,  *)
(* the arm); a call's locals are its frame in calls.  Each specification   *)
(* leaves the variables of the other as they start.                        *)
(***************************************************************************)
EXTENDS Integers, Sequences, FiniteSets, TLC

VARIABLES
    program,        \* which decoder is called: "System" (parse_system) or "Vote" (parse_vote)
    instruction,    \* the CompiledInstruction: [accounts, data]
    account_keys,   \* the account-key slice the call decodes against
    pc,             \* "ready": inputs chosen, decoder not yet run; "done": it returned
    result,         \* the call's outcome
    trace,          \* the operations the call performed, in order
    popped,         \* TRUE when the instruction had trailing account indices removed
    calls           \* the frames of the concurrently running calls (SpecCalls)

vars == <<program, instruction, account_keys, pc, result, trace, popped, calls>>

----------------------------------------------------------------------------
(* Bounds of the model *)

\* longest account-index list of an instruction
MaxAccounts == 5
\* longest account_keys slice; index values range over 0..MaxKeys, so the
\* value MaxKeys is out of range for every slice
MaxKeys == 2

----------------------------------------------------------------------------
(* Values *)

\* Pubkeys and hashes are opaque fixed-length identifiers; the model numbers them.
\* The i-th key of a message's account-key list (1-based): message keys are distinct.
MessageKey(i) == i

\* a pubkey that is in no account-key list of the model
ForeignKey == MaxKeys + 1

\* a second pubkey that is in no account-key list of the model
OtherForeignKey == MaxKeys + 2

\* Pubkey::to_string / Hash::to_string: the base58 text of the identifier
PubkeyToString(k) == <<"base58", k>>

HashToString(h) == <<"base58", h>>

\* serde_json rendering of an Option<i64>: null or the number
JsonOption(o) == IF o.some THEN [null |-> FALSE, number |-> o.value]
                 ELSE [null |-> TRUE, number |-> 0]

Some(v) == [some |-> TRUE, value |-> v]

None == [some |-> FALSE, value |-> 0]

At(s, i) == s[i + 1]

RECURSIVE SeqMax(_)
SeqMax(s) == IF Len(s) = 1 THEN s[1]
             ELSE LET m == SeqMax(Tail(s)) IN IF s[1] > m THEN s[1] ELSE m

Front(s) == SubSeq(s, 1, Len(s) - 1)

RECURSIVE SeqsUpTo(_, _)
SeqsUpTo(S, n) == IF n = 0 THEN {<<>>}
                  ELSE LET shorter == SeqsUpTo(S, n - 1)
                       IN shorter \cup {Append(s, x) : s \in {t \in shorter : Len(t) = n - 1}, x \in S}

----------------------------------------------------------------------------
(* Payload schemas.  A payload (instruction.data) is the sequence of words of *)
(* its encoding: the variant's discriminant, then one word for each field.    *)

\* the values the tests encode
Lamports == {55}

Spaces == {128}

Seeds == {"test_seed"}

Commissions == {10}

\* Hash::new_from_array([1; 32]) and Hash::new_from_array([2; 32])
VoteHash == 1

ProofHash == 2

Slots == <<1, 2, 4>>

Timestamps == {Some(1234567890), None}

AuthorityTypes == {"Voter", "Withdrawer"}

\* identifiers a payload carries: one that is also a message key, one that is not
PayloadKeys == {MessageKey(1), ForeignKey}

\* two distinct identifiers for payloads that carry two
PayloadKeyPairs == {<<MessageKey(1), ForeignKey>>, <<ForeignKey, OtherForeignKey>>}

\* the variants of SystemInstruction matched by parse_system
SystemInstruction ==
         {[tag |-> "CreateAccount", lamports |-> l, space |-> sp, owner |-> o] :
              l \in Lamports, sp \in Spaces, o \in PayloadKeys}
    \cup {[tag |-> "Assign", owner |-> o] : o \in PayloadKeys}
    \cup {[tag |-> "Transfer", lamports |-> l] : l \in Lamports}
    \cup {[tag |-> "CreateAccountWithSeed", base |-> p[1], seed |-> sd, lamports |-> l,
           space |-> sp, owner |-> p[2]] :
              p \in PayloadKeyPairs, sd \in Seeds, l \in Lamports, sp \in Spaces}
    \cup {[tag |-> "AdvanceNonceAccount"]}
    \cup {[tag |-> "WithdrawNonceAccount", lamports |-> l] : l \in Lamports}
    \cup {[tag |-> "InitializeNonceAccount", authority |-> a] : a \in PayloadKeys}
    \cup {[tag |-> "AuthorizeNonceAccount", authority |-> a] : a \in PayloadKeys}
    \cup {[tag |-> "UpgradeNonceAccount"]}
    \cup {[tag |-> "Allocate", space |-> sp] : sp \in Spaces}
    \cup {[tag |-> "AllocateWithSeed", base |-> p[1], seed |-> sd, space |-> sp,
           owner |-> p[2]] : p \in PayloadKeyPairs, sd \in Seeds, sp \in Spaces}
    \cup {[tag |-> "AssignWithSeed", base |-> p[1], seed |-> sd, owner |-> p[2]] :
              p \in PayloadKeyPairs, sd \in Seeds}
    \cup {[tag |-> "TransferWithSeed", lamports |-> l, from_seed |-> sd, from_owner |-> o] :
              l \in Lamports, sd \in Seeds, o \in PayloadKeys}

\* vote_state::Vote
Votes == {[slots |-> Slots, hash |-> VoteHash, timestamp |-> t] : t \in Timestamps}

\* the variants of VoteInstruction matched by parse_vote
VoteInstruction ==
         {[tag |-> "InitializeAccount", node_pubkey |-> MessageKey(2),
           authorized_voter |-> p[1], authorized_withdrawer |-> p[2],
           commission |-> c] :
              p \in PayloadKeyPairs, c \in Commissions}
    \cup {[tag |-> "Authorize", new_authorized |-> a, authority_type |-> t] :
              a \in PayloadKeys, t \in {"Voter"}}
    \cup {[tag |-> "Vote", vote |-> v] : v \in Votes}
    \cup {[tag |-> "Withdraw", lamports |-> l] : l \in Lamports}
    \cup {[tag |-> "UpdateValidatorIdentity"]}
    \cup {[tag |-> "UpdateCommission", commission |-> c] : c \in Commissions}
    \cup {[tag |-> "VoteSwitch", vote |-> v, proof_hash |-> ProofHash] : v \in Votes}
    \cup {[tag |-> "AuthorizeChecked", authority_type |-> t] : t \in AuthorityTypes}

SystemTags == {si.tag : si \in SystemInstruction}

VoteTags == {vi.tag : vi \in VoteInstruction}

Schema(prog) == IF prog = "System" THEN SystemInstruction ELSE VoteInstruction

\* the variants of each enum in declaration order: a variant's position, counted
\* from 0, is the u32 discriminant that starts its encoding
VariantOrder(prog) ==
    IF prog = "System"
    THEN <<"CreateAccount", "Assign", "Transfer", "CreateAccountWithSeed",
           "AdvanceNonceAccount", "WithdrawNonceAccount", "InitializeNonceAccount",
           "AuthorizeNonceAccount", "Allocate", "AllocateWithSeed", "AssignWithSeed",
           "TransferWithSeed", "UpgradeNonceAccount">>
    ELSE <<"InitializeAccount", "Authorize", "Vote", "Withdraw",
           "UpdateValidatorIdentity", "UpdateCommission", "VoteSwitch",
           "AuthorizeChecked">>

\* the fields of each variant in the order they are encoded
Layout(tag) ==
    CASE tag = "CreateAccount" -> <<"lamports", "space", "owner">>
      [] tag = "Assign" -> <<"owner">>
      [] tag = "Transfer" -> <<"lamports">>
      [] tag = "CreateAccountWithSeed" -> <<"base", "seed", "lamports", "space", "owner">>
      [] tag = "WithdrawNonceAccount" -> <<"lamports">>
      [] tag = "InitializeNonceAccount" -> <<"authority">>
      [] tag = "AuthorizeNonceAccount" -> <<"authority">>
      [] tag = "Allocate" -> <<"space">>
      [] tag = "AllocateWithSeed" -> <<"base", "seed", "space", "owner">>
      [] tag = "AssignWithSeed" -> <<"base", "seed", "owner">>
      [] tag = "TransferWithSeed" -> <<"lamports", "from_seed", "from_owner">>
      [] tag = "InitializeAccount" ->
            <<"node_pubkey", "authorized_voter", "authorized_withdrawer", "commission">>
      [] tag = "Authorize" -> <<"new_authorized", "authority_type">>
      [] tag = "Vote" -> <<"vote">>
      [] tag = "Withdraw" -> <<"lamports">>
      [] tag = "UpdateCommission" -> <<"commission">>
      [] tag = "VoteSwitch" -> <<"vote", "proof_hash">>
      [] tag = "AuthorizeChecked" -> <<"authority_type">>
      [] OTHER -> <<>>

\* the discriminant of a variant
Discriminant(prog, tag) ==
    CHOOSE n \in 0 .. Len(VariantOrder(prog)) - 1 : VariantOrder(prog)[n + 1] = tag

\* bincode::serialize(&variant), as the construction helpers produce the payload:
\* the discriminant, then the encoding of each field in order (one word a field)
serialize(prog, v) ==
    <<Discriminant(prog, v.tag)>> \o [i \in 1 .. Len(Layout(v.tag)) |-> v[Layout(v.tag)[i]]]

\* payload bytes: the encoding of a variant, the encoding of a variant cut short,
\* or a discriminant that no variant of the schema has
Payloads(prog) ==
         {serialize(prog, v) : v \in Schema(prog)}
    \cup {<<Len(VariantOrder(prog))>>}
    \cup {Front(serialize(prog, v)) :
              v \in {w \in Schema(prog) : w.tag \in {"Transfer", "Withdraw"}}}

\* what a payload that does not deserialize, or is not deserialized yet, yields
Undecoded == [ok |-> FALSE, value |-> [tag |-> "Unknown"]]

\* the variant tag with the first n fields of layout, read from data in order
RECURSIVE FieldsRead(_, _, _, _)
FieldsRead(tag, layout, data, n) ==
    IF n = 0 THEN "tag" :> tag
    ELSE FieldsRead(tag, layout, data, n - 1) @@ (layout[n] :> data[1 + n])

\* the fields of the variant tag read from data in the order of layout; Err when
\* the bytes end before the last field
ReadFields(tag, layout, data) ==
    IF Len(data) < 1 + Len(layout) THEN Undecoded
    ELSE [ok |-> TRUE, value |-> FieldsRead(tag, layout, data, Len(layout))]

ReadVariant(tag, data) == ReadFields(tag, Layout(tag), data)

\* reads the discriminant, then the variant's fields in order; Err when the
\* discriminant is unknown or the bytes end before the last field
ReadPayload(prog, data) ==
    LET order == VariantOrder(prog)
    IN IF Len(data) = 0 \/ data[1] \notin 0 .. Len(order) - 1 THEN Undecoded
       ELSE ReadVariant(order[data[1] + 1], data)

\* ReadPayload of every payload of the model, computed once
ReadPayloadMemo ==
    [prog \in {"System", "Vote"} |->
        [data \in Payloads(prog) |-> ReadPayload(prog, data)] @@ <<>>] @@ <<>>

\* bincode::deserialize(&instruction.data)
deserialize(prog, data) ==
    IF data \in DOMAIN ReadPayloadMemo[prog] THEN ReadPayloadMemo[prog][data]
    ELSE ReadPayload(prog, data)

----------------------------------------------------------------------------
(* Outcomes and the trace of a call *)

\* Err(ParseInstructionError::InstructionNotParsable(program))
InstructionNotParsable(prog) ==
    [kind |-> "err", error |-> "InstructionNotParsable", program |-> prog]

\* Err(ParseInstructionError::InstructionKeyMismatch(program))
InstructionKeyMismatch(prog) ==
    [kind |-> "err", error |-> "InstructionKeyMismatch", program |-> prog]

\* Ok(ParsedInstructionEnum { instruction_type, info })
ParsedInstructionEnum(type, info) ==
    [kind |-> "ok", instruction_type |-> type, info |-> info]

\* an index operation out of range: the thread panics, nothing is returned
Panic == [kind |-> "panic"]

\* no call has returned yet
NoResult == [kind |-> "none"]

Op(name, arg) == [op |-> name, arg |-> arg]

\* instruction.accounts.iter().max(): None for an empty list
MaxIndex(accounts) == IF accounts = <<>> THEN None ELSE Some(SeqMax(accounts))

\* the mutant of IndicesInBounds that compares with <=
IndicesInBounds_OffByOne(accounts, keys) ==
    LET m == MaxIndex(accounts) IN m.some /\ m.value <= Len(keys)

\* the mutant of IndicesInBounds that lets an empty index list pass
IndicesInBounds_EmptyPasses(accounts, keys) ==
    LET m == MaxIndex(accounts) IN m.some => m.value < Len(keys)

\* the mutant of IndicesInBounds that scans only the first index
IndicesInBounds_FirstOnly(accounts, keys) ==
    accounts # <<>> /\ accounts[1] < Len(keys)

\* the match on the maximum index: the arm `Some(index) if index < account_keys.len()`
\* is taken (TRUE), or the `_` arm that returns InstructionKeyMismatch (FALSE)
IndicesInBounds(accounts, keys) ==
    LET m == MaxIndex(accounts) IN m.some /\ m.value < Len(keys)

\* the mutant of check_num_accounts that counts the distinct accounts supplied
check_num_accounts_Distinct(accounts, num, prog) ==
    IF Cardinality({accounts[p] : p \in 1 .. Len(accounts)}) < num
    THEN [ok |-> FALSE, err |-> InstructionKeyMismatch(prog)]
    ELSE [ok |-> TRUE, err |-> NoResult]

\* the mutant of check_num_accounts that accepts exactly num account indices
check_num_accounts_Exact(accounts, num, prog) ==
    IF Len(accounts) # num
    THEN [ok |-> FALSE, err |-> InstructionKeyMismatch(prog)]
    ELSE [ok |-> TRUE, err |-> NoResult]

\* check_num_accounts(accounts, num, program): Err(InstructionKeyMismatch) when
\* fewer than num account indices were supplied
check_num_accounts(accounts, num, prog) ==
    IF Len(accounts) < num
    THEN [ok |-> FALSE, err |-> InstructionKeyMismatch(prog)]
    ELSE [ok |-> TRUE, err |-> NoResult]

\* the mutant of check_num_system_accounts that names the other program
check_num_system_accounts_WrongProgram(accounts, num) ==
    check_num_accounts(accounts, num, "Vote")

check_num_system_accounts(accounts, num) == check_num_accounts(accounts, num, "System")

check_num_vote_accounts(accounts, num) == check_num_accounts(accounts, num, "Vote")

\* The index operations of evaluating account_keys[instruction.accounts[i] as usize]
\* for i = 0 .. n-1 in that order, up to and including the first one out of range.
RECURSIVE IndexOps(_, _, _)
IndexOps(accounts, keys, n) ==
    IF n = 0 THEN [ops |-> <<>>, ok |-> TRUE]
    ELSE LET prev == IndexOps(accounts, keys, n - 1)
             i == n - 1
         IN IF ~prev.ok THEN prev
            ELSE IF i >= Len(accounts)
            THEN [ops |-> Append(prev.ops, Op("index_accounts", i)), ok |-> FALSE]
            ELSE [ops |-> prev.ops \o <<Op("index_accounts", i),
                                        Op("index_account_keys", At(accounts, i))>>,
                  ok |-> At(accounts, i) < Len(keys)]

\* the mutant of AccountKey that resolves every role from position 0
AccountKey_FirstPosition(accounts, keys, i) == PubkeyToString(At(keys, At(accounts, 0)))

\* account_keys[instruction.accounts[i] as usize].to_string()
AccountKey(accounts, keys, i) == PubkeyToString(At(keys, At(accounts, i)))

----------------------------------------------------------------------------
(* parse_system *)

\* the number of account roles the interface table lists for a variant, taken
\* for the count to check: the mutant of SystemNumAccounts
SystemNumAccounts_RolesOnly(si) ==
    CASE si.tag = "CreateAccount" -> 2
      [] si.tag = "Assign" -> 1
      [] si.tag = "Transfer" -> 2
      [] si.tag = "CreateAccountWithSeed" -> 2
      [] si.tag = "AdvanceNonceAccount" -> 3
      [] si.tag = "WithdrawNonceAccount" -> 5
      [] si.tag = "InitializeNonceAccount" -> 3
      [] si.tag = "AuthorizeNonceAccount" -> 2
      [] si.tag = "UpgradeNonceAccount" -> 1
      [] si.tag = "Allocate" -> 1
      [] si.tag = "AllocateWithSeed" -> 1
      [] si.tag = "AssignWithSeed" -> 1
      [] si.tag = "TransferWithSeed" -> 3

\* the mutant of SystemNumAccounts that checks one account fewer in every arm
SystemNumAccounts_OneFewer(si) ==
    CASE si.tag = "CreateAccount" -> 1
      [] si.tag = "Assign" -> 0
      [] si.tag = "Transfer" -> 1
      [] si.tag = "CreateAccountWithSeed" -> 1
      [] si.tag = "AdvanceNonceAccount" -> 2
      [] si.tag = "WithdrawNonceAccount" -> 4
      [] si.tag = "InitializeNonceAccount" -> 2
      [] si.tag = "AuthorizeNonceAccount" -> 1
      [] si.tag = "UpgradeNonceAccount" -> 0
      [] si.tag = "Allocate" -> 0
      [] si.tag = "AllocateWithSeed" -> 1
      [] si.tag = "AssignWithSeed" -> 1
      [] si.tag = "TransferWithSeed" -> 2

\* the count each arm of the match passes to check_num_system_accounts
SystemNumAccounts(si) ==
    CASE si.tag = "CreateAccount" -> 2
      [] si.tag = "Assign" -> 1
      [] si.tag = "Transfer" -> 2
      [] si.tag = "CreateAccountWithSeed" -> 2
      [] si.tag = "AdvanceNonceAccount" -> 3
      [] si.tag = "WithdrawNonceAccount" -> 5
      [] si.tag = "InitializeNonceAccount" -> 3
      [] si.tag = "AuthorizeNonceAccount" -> 2
      [] si.tag = "UpgradeNonceAccount" -> 1
      [] si.tag = "Allocate" -> 1
      [] si.tag = "AllocateWithSeed" -> 2
      [] si.tag = "AssignWithSeed" -> 2
      [] si.tag = "TransferWithSeed" -> 3

\* the number of positions of instruction.accounts each arm indexes (0 .. n-1)
SystemIndexed(si) ==
    CASE si.tag = "CreateAccount" -> 2
      [] si.tag = "Assign" -> 1
      [] si.tag = "Transfer" -> 2
      [] si.tag = "CreateAccountWithSeed" -> 2
      [] si.tag = "AdvanceNonceAccount" -> 3
      [] si.tag = "WithdrawNonceAccount" -> 5
      [] si.tag = "InitializeNonceAccount" -> 3
      [] si.tag = "AuthorizeNonceAccount" -> 2
      [] si.tag = "UpgradeNonceAccount" -> 1
      [] si.tag = "Allocate" -> 1
      [] si.tag = "AllocateWithSeed" -> 1
      [] si.tag = "AssignWithSeed" -> 1
      [] si.tag = "TransferWithSeed" -> 3

\* the mutant of SystemInstructionType that names the allocate and assign arms
\* after each other
SystemInstructionType_Swapped(si) ==
    CASE si.tag = "CreateAccount" -> "createAccount"
      [] si.tag = "Assign" -> "allocate"
      [] si.tag = "Transfer" -> "transfer"
      [] si.tag = "CreateAccountWithSeed" -> "createAccountWithSeed"
      [] si.tag = "AdvanceNonceAccount" -> "advanceNonce"
      [] si.tag = "WithdrawNonceAccount" -> "withdrawFromNonce"
      [] si.tag = "InitializeNonceAccount" -> "initializeNonce"
      [] si.tag = "AuthorizeNonceAccount" -> "authorizeNonce"
      [] si.tag = "UpgradeNonceAccount" -> "upgradeNonce"
      [] si.tag = "Allocate" -> "assign"
      [] si.tag = "AllocateWithSeed" -> "assignWithSeed"
      [] si.tag = "AssignWithSeed" -> "allocateWithSeed"
      [] si.tag = "TransferWithSeed" -> "transferWithSeed"

\* the mutant of SystemInstructionType whose AssignWithSeed arm kept the name
\* of the Assign arm
SystemInstructionType_Merged(si) ==
    CASE si.tag = "CreateAccount" -> "createAccount"
      [] si.tag = "Assign" -> "assign"
      [] si.tag = "Transfer" -> "transfer"
      [] si.tag = "CreateAccountWithSeed" -> "createAccountWithSeed"
      [] si.tag = "AdvanceNonceAccount" -> "advanceNonce"
      [] si.tag = "WithdrawNonceAccount" -> "withdrawFromNonce"
      [] si.tag = "InitializeNonceAccount" -> "initializeNonce"
      [] si.tag = "AuthorizeNonceAccount" -> "authorizeNonce"
      [] si.tag = "UpgradeNonceAccount" -> "upgradeNonce"
      [] si.tag = "Allocate" -> "allocate"
      [] si.tag = "AllocateWithSeed" -> "allocateWithSeed"
      [] si.tag = "AssignWithSeed" -> "assign"
      [] si.tag = "TransferWithSeed" -> "transferWithSeed"

\* the instruction_type string of each arm
SystemInstructionType(si) ==
    CASE si.tag = "CreateAccount" -> "createAccount"
      [] si.tag = "Assign" -> "assign"
      [] si.tag = "Transfer" -> "transfer"
      [] si.tag = "CreateAccountWithSeed" -> "createAccountWithSeed"
      [] si.tag = "AdvanceNonceAccount" -> "advanceNonce"
      [] si.tag = "WithdrawNonceAccount" -> "withdrawFromNonce"
      [] si.tag = "InitializeNonceAccount" -> "initializeNonce"
      [] si.tag = "AuthorizeNonceAccount" -> "authorizeNonce"
      [] si.tag = "UpgradeNonceAccount" -> "upgradeNonce"
      [] si.tag = "Allocate" -> "allocate"
      [] si.tag = "AllocateWithSeed" -> "allocateWithSeed"
      [] si.tag = "AssignWithSeed" -> "assignWithSeed"
      [] si.tag = "TransferWithSeed" -> "transferWithSeed"

\* the mutant of SystemInfo whose AllocateWithSeed and AssignWithSeed arms take
\* base from the account at position 1
SystemInfo_BaseFromAccounts(si, accounts, keys) ==
    LET K(i) == AccountKey(accounts, keys, i)
    IN CASE si.tag = "CreateAccount" ->
              [source |-> K(0), newAccount |-> K(1), lamports |-> si.lamports,
               space |-> si.space, owner |-> PubkeyToString(si.owner)]
         [] si.tag = "Assign" ->
              [account |-> K(0), owner |-> PubkeyToString(si.owner)]
         [] si.tag = "Transfer" ->
              [source |-> K(0), destination |-> K(1), lamports |-> si.lamports]
         [] si.tag = "CreateAccountWithSeed" ->
              [source |-> K(0), newAccount |-> K(1), base |-> PubkeyToString(si.base),
               seed |-> si.seed, lamports |-> si.lamports, space |-> si.space,
               owner |-> PubkeyToString(si.owner)]
         [] si.tag = "AdvanceNonceAccount" ->
              [nonceAccount |-> K(0), recentBlockhashesSysvar |-> K(1),
               nonceAuthority |-> K(2)]
         [] si.tag = "WithdrawNonceAccount" ->
              [nonceAccount |-> K(0), destination |-> K(1),
               recentBlockhashesSysvar |-> K(2), rentSysvar |-> K(3),
               nonceAuthority |-> K(4), lamports |-> si.lamports]
         [] si.tag = "InitializeNonceAccount" ->
              [nonceAccount |-> K(0), recentBlockhashesSysvar |-> K(1),
               rentSysvar |-> K(2), nonceAuthority |-> PubkeyToString(si.authority)]
         [] si.tag = "AuthorizeNonceAccount" ->
              [nonceAccount |-> K(0), nonceAuthority |-> K(1),
               newAuthorized |-> PubkeyToString(si.authority)]
         [] si.tag = "UpgradeNonceAccount" ->
              [nonceAccount |-> K(0)]
         [] si.tag = "Allocate" ->
              [account |-> K(0), space |-> si.space]
         [] si.tag = "AllocateWithSeed" ->
              [account |-> K(0), base |-> K(1), seed |-> si.seed,
               space |-> si.space, owner |-> PubkeyToString(si.owner)]
         [] si.tag = "AssignWithSeed" ->
              [account |-> K(0), base |-> K(1), seed |-> si.seed,
               owner |-> PubkeyToString(si.owner)]
         [] si.tag = "TransferWithSeed" ->
              [source |-> K(0), sourceBase |-> K(1), destination |-> K(2),
               lamports |-> si.lamports, sourceSeed |-> si.from_seed,
               sourceOwner |-> PubkeyToString(si.from_owner)]

\* the info mapping each arm builds with json!
SystemInfo(si, accounts, keys) ==
    LET K(i) == AccountKey(accounts, keys, i)
    IN CASE si.tag = "CreateAccount" ->
              [source |-> K(0), newAccount |-> K(1), lamports |-> si.lamports,
               space |-> si.space, owner |-> PubkeyToString(si.owner)]
         [] si.tag = "Assign" ->
              [account |-> K(0), owner |-> PubkeyToString(si.owner)]
         [] si.tag = "Transfer" ->
              [source |-> K(0), destination |-> K(1), lamports |-> si.lamports]
         [] si.tag = "CreateAccountWithSeed" ->
              [source |-> K(0), newAccount |-> K(1), base |-> PubkeyToString(si.base),
               seed |-> si.seed, lamports |-> si.lamports, space |-> si.space,
               owner |-> PubkeyToString(si.owner)]
         [] si.tag = "AdvanceNonceAccount" ->
              [nonceAccount |-> K(0), recentBlockhashesSysvar |-> K(1),
               nonceAuthority |-> K(2)]
         [] si.tag = "WithdrawNonceAccount" ->
              [nonceAccount |-> K(0), destination |-> K(1),
               recentBlockhashesSysvar |-> K(2), rentSysvar |-> K(3),
               nonceAuthority |-> K(4), lamports |-> si.lamports]
         [] si.tag = "InitializeNonceAccount" ->
              [nonceAccount |-> K(0), recentBlockhashesSysvar |-> K(1),
               rentSysvar |-> K(2), nonceAuthority |-> PubkeyToString(si.authority)]
         [] si.tag = "AuthorizeNonceAccount" ->
              [nonceAccount |-> K(0), nonceAuthority |-> K(1),
               newAuthorized |-> PubkeyToString(si.authority)]
         [] si.tag = "UpgradeNonceAccount" ->
              [nonceAccount |-> K(0)]
         [] si.tag = "Allocate" ->
              [account |-> K(0), space |-> si.space]
         [] si.tag = "AllocateWithSeed" ->
              [account |-> K(0), base |-> PubkeyToString(si.base), seed |-> si.seed,
               space |-> si.space, owner |-> PubkeyToString(si.owner)]
         [] si.tag = "AssignWithSeed" ->
              [account |-> K(0), base |-> PubkeyToString(si.base), seed |-> si.seed,
               owner |-> PubkeyToString(si.owner)]
         [] si.tag = "TransferWithSeed" ->
              [source |-> K(0), sourceBase |-> K(1), destination |-> K(2),
               lamports |-> si.lamports, sourceSeed |-> si.from_seed,
               sourceOwner |-> PubkeyToString(si.from_owner)]

\* the mutant of parse_system that checks the account indices before it
\* deserializes the payload
parse_system_AccountsFirst(instr, keys) ==
    LET d == deserialize("System", instr.data)
        t1 == <<Op("max", 0)>>
        t2 == Append(t1, Op("deserialize", 0))
    IN IF ~IndicesInBounds(instr.accounts, keys)
       THEN [result |-> InstructionKeyMismatch("System"), trace |-> t1]
       ELSE IF ~d.ok
       THEN [result |-> InstructionNotParsable("System"), trace |-> t2]
       ELSE LET si == d.value
                num == SystemNumAccounts(si)
                t3 == Append(t2, Op("check_num_accounts", num))
                ix == IndexOps(instr.accounts, keys, SystemIndexed(si))
            IN IF ~check_num_system_accounts(instr.accounts, num).ok
               THEN [result |-> check_num_system_accounts(instr.accounts, num).err,
                     trace |-> t3]
               ELSE IF ~ix.ok
               THEN [result |-> Panic, trace |-> t3 \o ix.ops]
               ELSE [result |-> ParsedInstructionEnum(SystemInstructionType(si),
                                    SystemInfo(si, instr.accounts, keys)),
                     trace |-> t3 \o ix.ops]

\* parse_system(instruction, account_keys): the outcome and the operations performed
parse_system(instr, keys) ==
    LET d == deserialize("System", instr.data)
        t1 == <<Op("deserialize", 0)>>
        t2 == Append(t1, Op("max", 0))
    IN IF ~d.ok
       THEN [result |-> InstructionNotParsable("System"), trace |-> t1]
       ELSE IF ~IndicesInBounds(instr.accounts, keys)
       THEN [result |-> InstructionKeyMismatch("System"), trace |-> t2]
       ELSE LET si == d.value
                num == SystemNumAccounts(si)
                t3 == Append(t2, Op("check_num_accounts", num))
                ix == IndexOps(instr.accounts, keys, SystemIndexed(si))
            IN IF ~check_num_system_accounts(instr.accounts, num).ok
               THEN [result |-> check_num_system_accounts(instr.accounts, num).err,
                     trace |-> t3]
               ELSE IF ~ix.ok
               THEN [result |-> Panic, trace |-> t3 \o ix.ops]
               ELSE [result |-> ParsedInstructionEnum(SystemInstructionType(si),
                                    SystemInfo(si, instr.accounts, keys)),
                     trace |-> t3 \o ix.ops]

----------------------------------------------------------------------------
(* parse_vote *)

\* the mutant of VoteNumAccounts that checks one account fewer in every arm
VoteNumAccounts_OneFewer(vi) ==
    CASE vi.tag = "InitializeAccount" -> 3
      [] vi.tag = "Authorize" -> 2
      [] vi.tag = "Vote" -> 3
      [] vi.tag = "Withdraw" -> 2
      [] vi.tag = "UpdateValidatorIdentity" -> 2
      [] vi.tag = "UpdateCommission" -> 1
      [] vi.tag = "VoteSwitch" -> 3
      [] vi.tag = "AuthorizeChecked" -> 3

\* the count each arm of the match passes to check_num_vote_accounts
VoteNumAccounts(vi) ==
    CASE vi.tag = "InitializeAccount" -> 4
      [] vi.tag = "Authorize" -> 3
      [] vi.tag = "Vote" -> 4
      [] vi.tag = "Withdraw" -> 3
      [] vi.tag = "UpdateValidatorIdentity" -> 3
      [] vi.tag = "UpdateCommission" -> 2
      [] vi.tag = "VoteSwitch" -> 4
      [] vi.tag = "AuthorizeChecked" -> 4

\* the number of positions of instruction.accounts each arm indexes (0 .. n-1)
VoteIndexed(vi) ==
    CASE vi.tag = "InitializeAccount" -> 4
      [] vi.tag = "Authorize" -> 3
      [] vi.tag = "Vote" -> 4
      [] vi.tag = "Withdraw" -> 3
      [] vi.tag = "UpdateValidatorIdentity" -> 3
      [] vi.tag = "UpdateCommission" -> 2
      [] vi.tag = "VoteSwitch" -> 4
      [] vi.tag = "AuthorizeChecked" -> 4

\* the instruction_type string of each arm
VoteInstructionType(vi) ==
    CASE vi.tag = "InitializeAccount" -> "initialize"
      [] vi.tag = "Authorize" -> "authorize"
      [] vi.tag = "Vote" -> "vote"
      [] vi.tag = "Withdraw" -> "withdraw"
      [] vi.tag = "UpdateValidatorIdentity" -> "updateValidatorIdentity"
      [] vi.tag = "UpdateCommission" -> "updateCommission"
      [] vi.tag = "VoteSwitch" -> "voteSwitch"
      [] vi.tag = "AuthorizeChecked" -> "authorizeChecked"

\* the mutant of VoteJson that projects the latest slot instead of the slot list
VoteJson_LatestSlot(vote) ==
    [slots |-> <<vote.slots[Len(vote.slots)]>>, hash |-> HashToString(vote.hash),
     timestamp |-> JsonOption(vote.timestamp)]

\* the mutant of VoteJson that leaves the timestamp key out when the vote has
\* no timestamp
VoteJson_SkipsNone(vote) ==
    IF vote.timestamp.some
    THEN [slots |-> vote.slots, hash |-> HashToString(vote.hash),
          timestamp |-> JsonOption(vote.timestamp)]
    ELSE [slots |-> vote.slots, hash |-> HashToString(vote.hash)]

\* the nested json! value built from a Vote
VoteJson(vote) ==
    [slots |-> vote.slots, hash |-> HashToString(vote.hash),
     timestamp |-> JsonOption(vote.timestamp)]

\* the info mapping each arm builds with json!
VoteInfo(vi, accounts, keys) ==
    LET K(i) == AccountKey(accounts, keys, i)
    IN CASE vi.tag = "InitializeAccount" ->
              [voteAccount |-> K(0), rentSysvar |-> K(1), clockSysvar |-> K(2),
               node |-> K(3),
               authorizedVoter |-> PubkeyToString(vi.authorized_voter),
               authorizedWithdrawer |-> PubkeyToString(vi.authorized_withdrawer),
               commission |-> vi.commission]
         [] vi.tag = "Authorize" ->
              [voteAccount |-> K(0), clockSysvar |-> K(1), authority |-> K(2),
               newAuthority |-> PubkeyToString(vi.new_authorized),
               authorityType |-> vi.authority_type]
         [] vi.tag = "Vote" ->
              [voteAccount |-> K(0), slotHashesSysvar |-> K(1), clockSysvar |-> K(2),
               voteAuthority |-> K(3), vote |-> VoteJson(vi.vote)]
         [] vi.tag = "Withdraw" ->
              [voteAccount |-> K(0), destination |-> K(1), withdrawAuthority |-> K(2),
               lamports |-> vi.lamports]
         [] vi.tag = "UpdateValidatorIdentity" ->
              [voteAccount |-> K(0), newValidatorIdentity |-> K(1),
               withdrawAuthority |-> K(2)]
         [] vi.tag = "UpdateCommission" ->
              [voteAccount |-> K(0), withdrawAuthority |-> K(1),
               commission |-> vi.commission]
         [] vi.tag = "VoteSwitch" ->
              [voteAccount |-> K(0), slotHashesSysvar |-> K(1), clockSysvar |-> K(2),
               voteAuthority |-> K(3), vote |-> VoteJson(vi.vote),
               hash |-> HashToString(vi.proof_hash)]
         [] vi.tag = "AuthorizeChecked" ->
              [voteAccount |-> K(0), clockSysvar |-> K(1), authority |-> K(2),
               newAuthority |-> K(3), authorityType |-> vi.authority_type]

\* parse_vote(instruction, account_keys): the outcome and the operations performed
parse_vote(instr, keys) ==
    LET d == deserialize("Vote", instr.data)
        t1 == <<Op("deserialize", 0)>>
        t2 == Append(t1, Op("max", 0))
    IN IF ~d.ok
       THEN [result |-> InstructionNotParsable("Vote"), trace |-> t1]
       ELSE IF ~IndicesInBounds(instr.accounts, keys)
       THEN [result |-> InstructionKeyMismatch("Vote"), trace |-> t2]
       ELSE LET vi == d.value
                num == VoteNumAccounts(vi)
                t3 == Append(t2, Op("check_num_accounts", num))
                ix == IndexOps(instr.accounts, keys, VoteIndexed(vi))
            IN IF ~check_num_vote_accounts(instr.accounts, num).ok
               THEN [result |-> check_num_vote_accounts(instr.accounts, num).err,
                     trace |-> t3]
               ELSE IF ~ix.ok
               THEN [result |-> Panic, trace |-> t3 \o ix.ops]
               ELSE [result |-> ParsedInstructionEnum(VoteInstructionType(vi),
                                    VoteInfo(vi, instr.accounts, keys)),
                     trace |-> t3 \o ix.ops]

----------------------------------------------------------------------------
(* The construction helpers of system_instruction and vote_instruction, and   *)
(* Message::new: a helper encodes its variant with serialize and lists the    *)
(* accounts the instruction touches; Message::new turns each listed account   *)
(* into its index in the message's account-key list.                          *)

\* the number of accounts each helper lists
HelperNumAccounts(tag) ==
    CASE tag = "CreateAccount" -> 2
      [] tag = "Assign" -> 1
      [] tag = "Transfer" -> 2
      [] tag = "CreateAccountWithSeed" -> 2
      [] tag = "AdvanceNonceAccount" -> 3
      [] tag = "WithdrawNonceAccount" -> 5
      [] tag = "InitializeNonceAccount" -> 3
      [] tag = "AuthorizeNonceAccount" -> 2
      [] tag = "UpgradeNonceAccount" -> 1
      [] tag = "Allocate" -> 1
      [] tag = "AllocateWithSeed" -> 2
      [] tag = "AssignWithSeed" -> 2
      [] tag = "TransferWithSeed" -> 3
      [] tag = "InitializeAccount" -> 4
      [] tag = "Authorize" -> 3
      [] tag = "Vote" -> 4
      [] tag = "Withdraw" -> 3
      [] tag = "UpdateValidatorIdentity" -> 3
      [] tag = "UpdateCommission" -> 2
      [] tag = "VoteSwitch" -> 4
      [] tag = "AuthorizeChecked" -> 4

\* the numbers of accounts a helper may list: create_account_with_seed lists
\* base as a third account when base is not the funding account
HelperAccountCounts(tag) ==
    IF tag = "CreateAccountWithSeed"
    THEN {HelperNumAccounts(tag), HelperNumAccounts(tag) + 1}
    ELSE {HelperNumAccounts(tag)}

\* the listed accounts that are also arguments encoded in the payload, for a
\* list of n accounts: 0-based position in the account list, payload field
HelperSharedAccounts(tag, n) ==
    CASE tag = "CreateAccountWithSeed" ->
            IF n = HelperNumAccounts(tag) THEN {<<0, "base">>} ELSE {<<2, "base">>}
      [] tag = "AllocateWithSeed" -> {<<1, "base">>}
      [] tag = "AssignWithSeed" -> {<<1, "base">>}
      [] tag = "InitializeAccount" -> {<<3, "node_pubkey">>}
      [] OTHER -> {}

\* instr is what the helper for variant v and Message::new produce, for a
\* message whose account-key list is keys
HelperBuilt(prog, v, instr, keys) ==
    /\ \A p \in 1 .. Len(instr.accounts) : instr.accounts[p] < Len(keys)
    /\ Len(instr.accounts) \in HelperAccountCounts(v.tag)
    /\ instr.data = serialize(prog, v)
    /\ \A sh \in HelperSharedAccounts(v.tag, Len(instr.accounts)) :
          At(keys, At(instr.accounts, sh[1])) = v[sh[2]]

----------------------------------------------------------------------------
(* The state machine: the inputs of a call are chosen, the decoder runs, and *)
(* the tests' follow-up call removes the instruction's trailing account index *)
(* and decodes again against the same keys.                                   *)

AccountIndices == 0 .. MaxKeys

AccountLists == SeqsUpTo(AccountIndices, MaxAccounts)

\* the account-key slices: the first n keys of a message
AccountKeyLists == {[i \in 1 .. n |-> MessageKey(i)] : n \in 0 .. MaxKeys}

Programs == {"System", "Vote"}

Init ==
    /\ program \in Programs
    /\ instruction \in {[accounts |-> a, data |-> d] :
                            a \in AccountLists, d \in Payloads(program)}
    /\ account_keys \in AccountKeyLists
    /\ pc = "ready"
    /\ result = NoResult
    /\ trace = <<>>
    /\ popped = FALSE
    /\ calls = <<>>

\* parse_system(&instruction, &account_keys)
ParseSystem ==
    /\ pc = "ready"
    /\ program = "System"
    /\ LET out == parse_system(instruction, account_keys)
       IN /\ result' = out.result
          /\ trace' = out.trace
    /\ pc' = "done"
    /\ UNCHANGED <<program, instruction, account_keys, popped, calls>>

\* parse_vote(&instruction, &account_keys)
ParseVote ==
    /\ pc = "ready"
    /\ program = "Vote"
    /\ LET out == parse_vote(instruction, account_keys)
       IN /\ result' = out.result
          /\ trace' = out.trace
    /\ pc' = "done"
    /\ UNCHANGED <<program, instruction, account_keys, popped, calls>>

\* message.instructions[0].accounts.pop(), after a call returned; the next
\* call decodes the shortened instruction against the same keys
PopAccount ==
    /\ pc = "done"
    /\ result.kind # "panic"
    /\ instruction.accounts # <<>>
    /\ instruction' = [instruction EXCEPT !.accounts = Front(instruction.accounts)]
    /\ popped' = TRUE
    /\ pc' = "ready"
    /\ result' = NoResult
    /\ trace' = <<>>
    /\ UNCHANGED <<program, account_keys, calls>>

Next == ParseSystem \/ ParseVote \/ PopAccount

Spec == Init /\ [][Next]_vars

----------------------------------------------------------------------------
(* Concurrent calls: every call runs the steps of its decoder on its own     *)
(* borrowed inputs; the decoders have no static and no shared mutable state, *)
(* so a step reads and writes the frame of its own call only.                *)

\* longest account-index list of a concurrently running call
MaxCallAccounts == 2

\* the call sites running at once
Calls == {"a", "b"}

\* the variants the concurrent calls decode: one per decoder, two accounts each
CallTags == {"Transfer", "UpdateCommission"}

CallPayloads(prog) ==
    {serialize(prog, v) : v \in {w \in Schema(prog) : w.tag \in CallTags}}
        \cup {<<Len(VariantOrder(prog))>>}

\* account indices within and beyond a one-key slice
CallAccountLists == SeqsUpTo({0, 1}, MaxCallAccounts)

CallKeyLists == {k \in AccountKeyLists : Len(k) \in {1, 2}}

\* the frame of a call at its entry
Frame(prog, instr, keys) ==
    [program |-> prog, instruction |-> instr, account_keys |-> keys,
     pc |-> "start", decoded |-> Undecoded, cursor |-> 0, max |-> None,
     result |-> NoResult]

\* the frames concurrent calls start from: each decoder on each of its inputs
Frames ==
    UNION {{Frame(prog, [accounts |-> a, data |-> d], k) :
                a \in CallAccountLists, k \in CallKeyLists, d \in CallPayloads(prog)} :
           prog \in Programs}

\* the variables of Spec, which the concurrent calls do not use
SingleCallVars == <<program, instruction, account_keys, pc, result, trace, popped>>

InitCalls ==
    /\ calls \in [Calls -> Frames]
    /\ program = "System"
    /\ instruction = [accounts |-> <<>>, data |-> <<>>]
    /\ account_keys = <<>>
    /\ pc = "idle"
    /\ result = NoResult
    /\ trace = <<>>
    /\ popped = FALSE

\* the mutant of Deserialized with a deserializer that is not reentrant: it
\* fails while another call is running
Deserialized_NotReentrant(cs, c) ==
    IF \E d \in Calls \ {c} : cs[d].pc \notin {"start", "done"}
    THEN Undecoded
    ELSE deserialize(cs[c].program, cs[c].instruction.data)

\* deserialize(&instruction.data) of call c
Deserialized(cs, c) == deserialize(cs[c].program, cs[c].instruction.data)

\* the mutant of ScanStep that does not advance the iterator
ScanStep_Stalls(f) ==
    LET index == At(f.instruction.accounts, f.cursor)
    IN [f EXCEPT !.max = IF ~f.max.some \/ index >= f.max.value
                         THEN Some(index) ELSE f.max]

\* one iteration of instruction.accounts.iter().max()
ScanStep(f) ==
    LET index == At(f.instruction.accounts, f.cursor)
    IN [f EXCEPT !.max = IF ~f.max.some \/ index >= f.max.value
                         THEN Some(index) ELSE f.max,
                 !.cursor = f.cursor + 1]

\* the mutant of ScannedMax that keeps the maximum in a static shared by all
\* calls: a call reads what a call still scanning has written there
ScannedMax_Shared(cs, c) ==
    LET scanning == {d \in Calls \ {c} : cs[d].pc = "scan"}
    IN IF scanning # {} THEN cs[CHOOSE d \in scanning : TRUE].max ELSE cs[c].max

\* the maximum the match of call c reads: the local of its own scan
ScannedMax(cs, c) == cs[c].max

\* the arm of the decoded variant: its arity check, then the record
ArmResult(f) ==
    LET v == f.decoded.value
        accounts == f.instruction.accounts
        keys == f.account_keys
        system == f.program = "System"
        num == IF system THEN SystemNumAccounts(v) ELSE VoteNumAccounts(v)
        chk == IF system THEN check_num_system_accounts(accounts, num)
               ELSE check_num_vote_accounts(accounts, num)
        ix == IndexOps(accounts, keys, IF system THEN SystemIndexed(v) ELSE VoteIndexed(v))
    IN IF ~chk.ok THEN chk.err
       ELSE IF ~ix.ok THEN Panic
       ELSE IF system
       THEN ParsedInstructionEnum(SystemInstructionType(v), SystemInfo(v, accounts, keys))
       ELSE ParsedInstructionEnum(VoteInstructionType(v), VoteInfo(v, accounts, keys))

\* bincode::deserialize(&instruction.data).map_err(..)?
Deserialize(c) ==
    /\ calls[c].pc = "start"
    /\ LET f == calls[c]
           d == Deserialized(calls, c)
       IN calls' = [calls EXCEPT ![c] =
                        IF d.ok
                        THEN [f EXCEPT !.decoded = d, !.pc = "scan"]
                        ELSE [f EXCEPT !.pc = "done",
                                       !.result = InstructionNotParsable(f.program)]]
    /\ UNCHANGED SingleCallVars

\* instruction.accounts.iter().max(): the next account index
ScanAccount(c) ==
    /\ calls[c].pc = "scan"
    /\ calls[c].cursor < Len(calls[c].instruction.accounts)
    /\ calls' = [calls EXCEPT ![c] = ScanStep(calls[c])]
    /\ UNCHANGED SingleCallVars

\* match ..max() { Some(index) if index < account_keys.len() => {}, _ => return Err(..) }
MatchMax(c) ==
    /\ calls[c].pc = "scan"
    /\ calls[c].cursor = Len(calls[c].instruction.accounts)
    /\ LET f == calls[c]
           m == ScannedMax(calls, c)
       IN calls' = [calls EXCEPT ![c] =
                        IF m.some /\ m.value < Len(f.account_keys)
                        THEN [f EXCEPT !.pc = "arm"]
                        ELSE [f EXCEPT !.pc = "done",
                                       !.result = InstructionKeyMismatch(f.program)]]
    /\ UNCHANGED SingleCallVars

\* match system_instruction / vote_instruction { .. }
Arm(c) ==
    /\ calls[c].pc = "arm"
    /\ calls' = [calls EXCEPT ![c] =
                    [calls[c] EXCEPT !.pc = "done", !.result = ArmResult(calls[c])]]
    /\ UNCHANGED SingleCallVars

Step(c) == Deserialize(c) \/ ScanAccount(c) \/ MatchMax(c) \/ Arm(c)

NextCalls == \E c \in Calls : Step(c)

SpecCalls == InitCalls /\ [][NextCalls]_vars

\* every running call is scheduled: a call site that is ready to step does step
SpecCallsFair == SpecCalls /\ \A c \in Calls : WF_vars(Step(c))

----------------------------------------------------------------------------
(* Properties *)

Returned == pc = "done"

\* the payload deserializes into a variant of the called decoder's schema
Parsable == deserialize(program, instruction.data).ok

Variant == deserialize(program, instruction.data).value

NumAccounts == Len(instruction.accounts)

NumKeys == Len(account_keys)

\* every account index of the instruction is < len(account_keys)
AllInBounds == \A p \in 1 .. NumAccounts : instruction.accounts[p] < NumKeys

IsIndexOp(e) == e.op \in {"index_accounts", "index_account_keys"}

Performed(name) == \E k \in 1 .. Len(trace) : trace[k].op = name

\* the account key a role at 0-based position i must resolve to
KeyAtPosition(i) == PubkeyToString(account_keys[instruction.accounts[i + 1] + 1])

\* C1: no call of parse_system or parse_vote reads instruction.accounts at a
\* position >= len(instruction.accounts) or account_keys at an index >=
\* len(account_keys); no call panics; and every index operation comes after both
\* the maximum-index check and the arm's check_num_accounts.
C1_NoOutOfRangeIndexing ==
    Returned =>
        /\ result.kind # "panic"
        /\ \A k \in 1 .. Len(trace) :
              /\ trace[k].op = "index_accounts" => trace[k].arg < NumAccounts
              /\ trace[k].op = "index_account_keys" => trace[k].arg < NumKeys
              /\ IsIndexOp(trace[k]) =>
                    /\ \E j \in 1 .. k - 1 : trace[j].op = "max"
                    /\ \E j \in 1 .. k - 1 : trace[j].op = "check_num_accounts"

\* a call that succeeded after reading account_keys at its last valid index,
\* with more account indices than its arm uses
C1_Witness ==
    /\ Returned
    /\ result.kind = "ok"
    /\ NumKeys > 1
    /\ \E k \in 1 .. Len(trace) :
          trace[k].op = "index_account_keys" /\ trace[k].arg = NumKeys - 1
    /\ \E k \in 1 .. Len(trace) :
          trace[k].op = "check_num_accounts" /\ trace[k].arg < NumAccounts

\* C2: a payload that does not deserialize yields InstructionNotParsable naming
\* the decoder's program, whatever the account indices and keys are, and no
\* account check is performed.
C2_NotParsableTakesPrecedence ==
    (Returned /\ ~Parsable) =>
        /\ result = InstructionNotParsable(program)
        /\ trace = <<Op("deserialize", 0)>>

\* an unparsable payload with an account index that is out of range
C2_Witness ==
    /\ Returned
    /\ ~Parsable
    /\ NumAccounts > 0
    /\ ~AllInBounds
    /\ result.kind = "err"
    /\ result.error = "InstructionNotParsable"

\* C3: for a parsable payload, a maximum account index >= len(account_keys),
\* at whatever position, yields InstructionKeyMismatch; the maximum-index check
\* is the second operation of the call, right after deserialize, and the arity
\* check and every index operation come after it.
C3_MaxIndexCheckedBeforeDispatch ==
    (Returned /\ Parsable) =>
        /\ Len(trace) >= 2
        /\ trace[1].op = "deserialize"
        /\ trace[2].op = "max"
        /\ \A k \in 1 .. Len(trace) :
              (trace[k].op = "check_num_accounts" \/ IsIndexOp(trace[k])) => k > 2
        /\ (NumAccounts > 0 /\ SeqMax(instruction.accounts) >= NumKeys) =>
              /\ result = InstructionKeyMismatch(program)
              /\ Len(trace) = 2

\* a parsable instruction with enough account indices whose only out-of-range
\* index is at the last position, which no arm reads
C3_Witness ==
    /\ Returned
    /\ Parsable
    /\ NumAccounts = MaxAccounts
    /\ \A p \in 1 .. NumAccounts - 1 : instruction.accounts[p] < NumKeys
    /\ instruction.accounts[NumAccounts] >= NumKeys
    /\ Variant.tag \in {"Assign", "UpdateCommission"}
    /\ result.kind = "err"
    /\ result.error = "InstructionKeyMismatch"

\* the count checked for the decoded variant
RequiredCount ==
    IF program = "System" THEN SystemNumAccounts(Variant) ELSE VoteNumAccounts(Variant)

\* C4: a parsable payload with all account indices in bounds and fewer of them
\* than the decoded variant requires yields InstructionKeyMismatch tagged with
\* the decoder's program, and no record.
C4_ArityShortfallIsKeyMismatch ==
    (Returned /\ Parsable /\ AllInBounds /\ NumAccounts < RequiredCount) =>
        result = InstructionKeyMismatch(program)

\* a parsable instruction, not empty, all indices in bounds, one index short
C4_Witness ==
    /\ Returned
    /\ Parsable
    /\ AllInBounds
    /\ NumAccounts > 0
    /\ NumAccounts = RequiredCount - 1
    /\ result.kind = "err"

\* C5 as stated: with zero account indices the maximum-index check does not
\* fail, and the call goes on to the variant's arity check.
C5_EmptyIndexListPassesBoundCheck ==
    (Returned /\ Parsable /\ NumAccounts = 0) => Performed("check_num_accounts")

\* C5, amended: with zero account indices the maximum-index check itself fails
\* (the scan yields no maximum and the match takes its `_` arm): the call returns
\* InstructionKeyMismatch tagged with the decoder's program right after the
\* check, and never reaches the variant's arity check.
C5_EmptyIndexListFailsBoundCheck ==
    (Returned /\ Parsable /\ NumAccounts = 0) =>
        /\ result = InstructionKeyMismatch(program)
        /\ trace = <<Op("deserialize", 0), Op("max", 0)>>
        /\ ~Performed("check_num_accounts")

\* a parsable instruction with no account indices, decoded against a
\* non-empty key list
C5_Witness ==
    /\ Returned
    /\ Parsable
    /\ NumAccounts = 0
    /\ NumKeys > 0
    /\ result.kind = "err"

SeededTags ==
    {"CreateAccountWithSeed", "AllocateWithSeed", "AssignWithSeed", "TransferWithSeed"}

\* the number of roles the interface table lists for the seeded variants
SeededTableCount(tag) ==
    CASE tag = "CreateAccountWithSeed" -> 2
      [] tag = "AllocateWithSeed" -> 1
      [] tag = "AssignWithSeed" -> 1
      [] tag = "TransferWithSeed" -> 3

\* the number of account indices parse_system requires for the seeded variants
SeededRequiredCount(tag) ==
    CASE tag = "CreateAccountWithSeed" -> 2
      [] tag = "AllocateWithSeed" -> 2
      [] tag = "AssignWithSeed" -> 2
      [] tag = "TransferWithSeed" -> 3

SeededCall == Returned /\ program = "System" /\ Parsable /\ Variant.tag \in SeededTags

\* C6 as stated: a seeded variant decodes exactly when it carries at least as
\* many in-bounds account indices as the interface table lists roles (2, 1, 1,
\* 3); allocateWithSeed and assignWithSeed decode with one in-bounds index.
C6_SeededCountsAsInTable ==
    (SeededCall /\ AllInBounds) =>
        (result.kind = "ok" <=> NumAccounts >= SeededTableCount(Variant.tag))

\* C6, amended: the seeded variants require createAccountWithSeed 2,
\* allocateWithSeed 2, assignWithSeed 2, transferWithSeed 3 in-bounds account
\* indices: with at least that many the decode succeeds, with fewer it fails
\* with InstructionKeyMismatch.  allocateWithSeed and assignWithSeed require one
\* index more than the roles they project: with exactly one in-bounds index they
\* fail, with two they succeed and 'account' is resolved from position 0.
C6_SeededCountsAsChecked ==
    (SeededCall /\ AllInBounds) =>
        /\ result.kind = "ok" <=> NumAccounts >= SeededRequiredCount(Variant.tag)
        /\ result.kind # "ok" => result = InstructionKeyMismatch("System")
        /\ (Variant.tag \in {"AllocateWithSeed", "AssignWithSeed"} /\ result.kind = "ok") =>
              result.info.account = KeyAtPosition(0)

\* an allocateWithSeed or assignWithSeed instruction with exactly one in-bounds
\* account index, rejected
C6_Witness ==
    /\ SeededCall
    /\ ~popped
    /\ Variant.tag \in {"AllocateWithSeed", "AssignWithSeed"}
    /\ NumAccounts = 1
    /\ AllInBounds
    /\ result = InstructionKeyMismatch("System")

\* C7: an allocateWithSeed or assignWithSeed instruction left with one account
\* index after its trailing index was removed fails to decode, also against the
\* full account-key list.
C7_SeededWithoutBaseIndexFails ==
    (SeededCall /\ popped /\ Variant.tag \in {"AllocateWithSeed", "AssignWithSeed"}
        /\ NumAccounts = 1) =>
        result.kind = "err"

\* the shortened instruction, its remaining index in bounds, decoded against
\* the longest key list
C7_Witness ==
    /\ SeededCall
    /\ popped
    /\ Variant.tag \in {"AllocateWithSeed", "AssignWithSeed"}
    /\ NumAccounts = 1
    /\ AllInBounds
    /\ NumKeys = MaxKeys
    /\ result.kind = "err"

NonSeededTags ==
    {"CreateAccount", "Assign", "Transfer", "AdvanceNonceAccount",
     "WithdrawNonceAccount", "InitializeNonceAccount", "AuthorizeNonceAccount",
     "UpgradeNonceAccount", "Allocate"}

\* the number of roles the interface table lists for the non-seeded variants
NonSeededTableCount(tag) ==
    CASE tag = "CreateAccount" -> 2
      [] tag = "Assign" -> 1
      [] tag = "Transfer" -> 2
      [] tag = "AdvanceNonceAccount" -> 3
      [] tag = "WithdrawNonceAccount" -> 5
      [] tag = "InitializeNonceAccount" -> 3
      [] tag = "AuthorizeNonceAccount" -> 2
      [] tag = "UpgradeNonceAccount" -> 1
      [] tag = "Allocate" -> 1

\* C8: for the non-seeded variants of parse_system, with exactly as many
\* in-bounds account indices as the interface table lists roles the decode
\* succeeds (with the variant's instruction_type), and with one fewer it fails
\* with InstructionKeyMismatch.
C8_NonSeededCounts ==
    (Returned /\ program = "System" /\ Parsable /\ Variant.tag \in NonSeededTags
        /\ AllInBounds) =>
        /\ NumAccounts = NonSeededTableCount(Variant.tag) => result.kind = "ok"
        /\ NumAccounts = NonSeededTableCount(Variant.tag) - 1 =>
              result = InstructionKeyMismatch("System")

\* withdrawFromNonce with exactly five in-bounds account indices, decoded
C8_Witness ==
    /\ Returned
    /\ program = "System"
    /\ Parsable
    /\ Variant.tag = "WithdrawNonceAccount"
    /\ NumAccounts = 5
    /\ AllInBounds
    /\ result.kind = "ok"
    /\ result.instruction_type = "withdrawFromNonce"

\* the number of roles the interface table lists for the voting program
VoteTableCount(tag) ==
    CASE tag = "InitializeAccount" -> 4
      [] tag = "Authorize" -> 3
      [] tag = "Vote" -> 4
      [] tag = "Withdraw" -> 3
      [] tag = "UpdateValidatorIdentity" -> 3
      [] tag = "UpdateCommission" -> 2
      [] tag = "VoteSwitch" -> 4
      [] tag = "AuthorizeChecked" -> 4

\* C9: for every variant of parse_vote, with exactly as many in-bounds account
\* indices as the interface table lists roles the decode succeeds, and with one
\* fewer it fails with InstructionKeyMismatch.
C9_VoteCounts ==
    (Returned /\ program = "Vote" /\ Parsable /\ AllInBounds) =>
        /\ NumAccounts = VoteTableCount(Variant.tag) => result.kind = "ok"
        /\ NumAccounts = VoteTableCount(Variant.tag) - 1 =>
              result = InstructionKeyMismatch("Vote")

\* authorizeChecked with three in-bounds account indices, one short, rejected
C9_Witness ==
    /\ Returned
    /\ program = "Vote"
    /\ Parsable
    /\ Variant.tag = "AuthorizeChecked"
    /\ NumAccounts = 3
    /\ AllInBounds
    /\ result = InstructionKeyMismatch("Vote")

\* the account roles of each variant of the account/ownership program, in the
\* order the interface table lists them
SystemRoles(tag) ==
    CASE tag = "CreateAccount" -> <<"source", "newAccount">>
      [] tag = "Assign" -> <<"account">>
      [] tag = "Transfer" -> <<"source", "destination">>
      [] tag = "CreateAccountWithSeed" -> <<"source", "newAccount">>
      [] tag = "AdvanceNonceAccount" ->
            <<"nonceAccount", "recentBlockhashesSysvar", "nonceAuthority">>
      [] tag = "WithdrawNonceAccount" ->
            <<"nonceAccount", "destination", "recentBlockhashesSysvar", "rentSysvar",
              "nonceAuthority">>
      [] tag = "InitializeNonceAccount" ->
            <<"nonceAccount", "recentBlockhashesSysvar", "rentSysvar">>
      [] tag = "AuthorizeNonceAccount" -> <<"nonceAccount", "nonceAuthority">>
      [] tag = "UpgradeNonceAccount" -> <<"nonceAccount">>
      [] tag = "Allocate" -> <<"account">>
      [] tag = "AllocateWithSeed" -> <<"account">>
      [] tag = "AssignWithSeed" -> <<"account">>
      [] tag = "TransferWithSeed" -> <<"source", "sourceBase", "destination">>

\* the identifiers of info that the payload carries: field of info, identifier
SystemPayloadIdentifiers(si) ==
    CASE si.tag = "CreateAccount" -> {<<"owner", si.owner>>}
      [] si.tag = "Assign" -> {<<"owner", si.owner>>}
      [] si.tag = "CreateAccountWithSeed" -> {<<"base", si.base>>, <<"owner", si.owner>>}
      [] si.tag = "InitializeNonceAccount" -> {<<"nonceAuthority", si.authority>>}
      [] si.tag = "AuthorizeNonceAccount" -> {<<"newAuthorized", si.authority>>}
      [] si.tag = "AllocateWithSeed" -> {<<"base", si.base>>, <<"owner", si.owner>>}
      [] si.tag = "AssignWithSeed" -> {<<"base", si.base>>, <<"owner", si.owner>>}
      [] si.tag = "TransferWithSeed" -> {<<"sourceOwner", si.from_owner>>}
      [] OTHER -> {}

\* C10: on a successful parse_system decode the i-th role the interface table
\* lists for the variant is account_keys[instruction.accounts[i]] as text, and
\* owner, base, nonceAuthority of initializeNonce, newAuthorized and sourceOwner
\* are the payload's identifiers as text.
C10_SystemRolesResolvedByPosition ==
    (Returned /\ program = "System" /\ result.kind = "ok") =>
        LET roles == SystemRoles(Variant.tag)
        IN /\ \A i \in 1 .. Len(roles) : result.info[roles[i]] = KeyAtPosition(i - 1)
           /\ \A f \in SystemPayloadIdentifiers(Variant) :
                 result.info[f[1]] = PubkeyToString(f[2])

\* a decoded transferWithSeed whose source and sourceBase are different keys
\* and whose sourceOwner is not the key at any of its positions
C10_Witness ==
    /\ Returned
    /\ program = "System"
    /\ result.kind = "ok"
    /\ Variant.tag = "TransferWithSeed"
    /\ instruction.accounts[1] # instruction.accounts[2]
    /\ result.info.source # result.info.sourceBase
    /\ \A p \in 1 .. 3 : result.info.sourceOwner # KeyAtPosition(p - 1)

\* the account roles of each variant of the voting program, in the order the
\* interface table lists them
VoteRoles(tag) ==
    CASE tag = "InitializeAccount" -> <<"voteAccount", "rentSysvar", "clockSysvar", "node">>
      [] tag = "Authorize" -> <<"voteAccount", "clockSysvar", "authority">>
      [] tag = "Vote" ->
            <<"voteAccount", "slotHashesSysvar", "clockSysvar", "voteAuthority">>
      [] tag = "Withdraw" -> <<"voteAccount", "destination", "withdrawAuthority">>
      [] tag = "UpdateValidatorIdentity" ->
            <<"voteAccount", "newValidatorIdentity", "withdrawAuthority">>
      [] tag = "UpdateCommission" -> <<"voteAccount", "withdrawAuthority">>
      [] tag = "VoteSwitch" ->
            <<"voteAccount", "slotHashesSysvar", "clockSysvar", "voteAuthority">>
      [] tag = "AuthorizeChecked" ->
            <<"voteAccount", "clockSysvar", "authority", "newAuthority">>

\* C11: on a successful parse_vote decode the i-th role the interface table
\* lists for the variant is account_keys[instruction.accounts[i]] as text, and
\* newAuthority of authorize is the payload's identifier as text.
C11_VoteRolesResolvedByPosition ==
    (Returned /\ program = "Vote" /\ result.kind = "ok") =>
        LET roles == VoteRoles(Variant.tag)
        IN /\ \A i \in 1 .. Len(roles) : result.info[roles[i]] = KeyAtPosition(i - 1)
           /\ Variant.tag = "Authorize" =>
                 result.info.newAuthority = PubkeyToString(Variant.new_authorized)

\* a decoded authorize whose voteAccount and clockSysvar are different keys and
\* whose newAuthority is the key at none of its positions
C11_Witness ==
    /\ Returned
    /\ program = "Vote"
    /\ result.kind = "ok"
    /\ Variant.tag = "Authorize"
    /\ result.info.voteAccount # result.info.clockSysvar
    /\ \A p \in 1 .. 3 : result.info.newAuthority # KeyAtPosition(p - 1)

\* the instruction_type the interface tables document for each variant
DocumentedType(tag) ==
    CASE tag = "CreateAccount" -> "createAccount"
      [] tag = "Assign" -> "assign"
      [] tag = "Transfer" -> "transfer"
      [] tag = "CreateAccountWithSeed" -> "createAccountWithSeed"
      [] tag = "AdvanceNonceAccount" -> "advanceNonce"
      [] tag = "WithdrawNonceAccount" -> "withdrawFromNonce"
      [] tag = "InitializeNonceAccount" -> "initializeNonce"
      [] tag = "AuthorizeNonceAccount" -> "authorizeNonce"
      [] tag = "UpgradeNonceAccount" -> "upgradeNonce"
      [] tag = "Allocate" -> "allocate"
      [] tag = "AllocateWithSeed" -> "allocateWithSeed"
      [] tag = "AssignWithSeed" -> "assignWithSeed"
      [] tag = "TransferWithSeed" -> "transferWithSeed"
      [] tag = "InitializeAccount" -> "initialize"
      [] tag = "Authorize" -> "authorize"
      [] tag = "Vote" -> "vote"
      [] tag = "Withdraw" -> "withdraw"
      [] tag = "UpdateValidatorIdentity" -> "updateValidatorIdentity"
      [] tag = "UpdateCommission" -> "updateCommission"
      [] tag = "VoteSwitch" -> "voteSwitch"
      [] tag = "AuthorizeChecked" -> "authorizeChecked"

\* the payload fields of a decoded record, as the values a helper was given
\* must come back: field of info, expected value
EncodedFields(v) ==
    CASE v.tag = "CreateAccount" ->
            <<<<"lamports", v.lamports>>, <<"space", v.space>>,
              <<"owner", PubkeyToString(v.owner)>>>>
      [] v.tag = "Assign" -> <<<<"owner", PubkeyToString(v.owner)>>>>
      [] v.tag = "Transfer" -> <<<<"lamports", v.lamports>>>>
      [] v.tag = "CreateAccountWithSeed" ->
            <<<<"base", PubkeyToString(v.base)>>, <<"seed", v.seed>>,
              <<"lamports", v.lamports>>, <<"space", v.space>>,
              <<"owner", PubkeyToString(v.owner)>>>>
      [] v.tag = "WithdrawNonceAccount" -> <<<<"lamports", v.lamports>>>>
      [] v.tag = "InitializeNonceAccount" ->
            <<<<"nonceAuthority", PubkeyToString(v.authority)>>>>
      [] v.tag = "AuthorizeNonceAccount" ->
            <<<<"newAuthorized", PubkeyToString(v.authority)>>>>
      [] v.tag = "Allocate" -> <<<<"space", v.space>>>>
      [] v.tag = "AllocateWithSeed" ->
            <<<<"base", PubkeyToString(v.base)>>, <<"seed", v.seed>>,
              <<"space", v.space>>, <<"owner", PubkeyToString(v.owner)>>>>
      [] v.tag = "AssignWithSeed" ->
            <<<<"base", PubkeyToString(v.base)>>, <<"seed", v.seed>>,
              <<"owner", PubkeyToString(v.owner)>>>>
      [] v.tag = "TransferWithSeed" ->
            <<<<"lamports", v.lamports>>, <<"sourceSeed", v.from_seed>>,
              <<"sourceOwner", PubkeyToString(v.from_owner)>>>>
      [] v.tag = "InitializeAccount" ->
            <<<<"node", PubkeyToString(v.node_pubkey)>>,
              <<"authorizedVoter", PubkeyToString(v.authorized_voter)>>,
              <<"authorizedWithdrawer", PubkeyToString(v.authorized_withdrawer)>>,
              <<"commission", v.commission>>>>
      [] v.tag = "Authorize" ->
            <<<<"newAuthority", PubkeyToString(v.new_authorized)>>,
              <<"authorityType", v.authority_type>>>>
      [] v.tag = "Vote" ->
            <<<<"vote", [slots |-> v.vote.slots, hash |-> HashToString(v.vote.hash),
                         timestamp |-> JsonOption(v.vote.timestamp)]>>>>
      [] v.tag = "Withdraw" -> <<<<"lamports", v.lamports>>>>
      [] v.tag = "UpdateCommission" -> <<<<"commission", v.commission>>>>
      [] v.tag = "VoteSwitch" ->
            <<<<"vote", [slots |-> v.vote.slots, hash |-> HashToString(v.vote.hash),
                         timestamp |-> JsonOption(v.vote.timestamp)]>>,
              <<"hash", HashToString(v.proof_hash)>>>>
      [] v.tag = "AuthorizeChecked" -> <<<<"authorityType", v.authority_type>>>>
      [] OTHER -> <<>>

\* C12: an instruction built by the construction helper for a variant and
\* decoded against its message's account-key list never fails: the record has
\* the documented instruction_type and every payload field has the value that
\* was encoded.
C12_RoundTrip ==
    (Returned /\ AllInBounds) =>
        \A v \in Schema(program) :
            HelperBuilt(program, v, instruction, account_keys) =>
                /\ result.kind = "ok"
                /\ result.instruction_type = DocumentedType(v.tag)
                /\ \A i \in 1 .. Len(EncodedFields(v)) :
                      result.info[EncodedFields(v)[i][1]] = EncodedFields(v)[i][2]

\* the decoded allocate_with_seed instruction of the tests: accounts (account,
\* base) with base the first message key, owner a key outside the message
C12_Witness ==
    /\ Returned
    /\ program = "System"
    /\ ~popped
    /\ \E v \in SystemInstruction :
          /\ v.tag = "AllocateWithSeed"
          /\ HelperBuilt("System", v, instruction, account_keys)
          /\ instruction.accounts = <<1, 0>>
    /\ result.kind = "ok"
    /\ result.info.base = PubkeyToString(MessageKey(1))
    /\ result.info.owner = PubkeyToString(ForeignKey)

\* the number of distinct account indices of the instruction
DistinctIndices == Cardinality({instruction.accounts[p] : p \in 1 .. NumAccounts})

\* a parsable instruction with at least the required number of account
\* indices, decoded against the first k < required_count keys of the message
TruncatedKeysCall ==
    /\ Returned
    /\ Parsable
    /\ LET n == RequiredCount IN NumAccounts >= n /\ NumKeys < n

\* C13 as stated: a parsable instruction with at least required_count account
\* indices, decoded against an account-keys list truncated to k <
\* required_count keys, fails with key mismatch and never indexes out of range.
C13_TruncatedKeysAlwaysMismatch ==
    TruncatedKeysCall =>
        /\ result = InstructionKeyMismatch(program)
        /\ \A k \in 1 .. Len(trace) :
              trace[k].op = "index_account_keys" => trace[k].arg < NumKeys

\* C13 amended: such a call never indexes out of range and never panics; it
\* fails with key mismatch whenever some account index is >= k, which is so
\* whenever the instruction names more than k distinct indices, so whenever it
\* names required_count distinct ones; it succeeds only when all its indices
\* are < k, so repeat one another.
C13_TruncatedKeysMismatchUnlessRepeated ==
    TruncatedKeysCall =>
        /\ result.kind \in {"ok", "err"}
        /\ \A k \in 1 .. Len(trace) :
              trace[k].op = "index_account_keys" => trace[k].arg < NumKeys
        /\ ~AllInBounds => result = InstructionKeyMismatch(program)
        /\ LET distinct == DistinctIndices
           IN /\ distinct > NumKeys => result = InstructionKeyMismatch(program)
              /\ AllInBounds =>
                    /\ result.kind = "ok"
                    /\ distinct <= NumKeys
                    /\ distinct < RequiredCount

\* the tests' truncation: as many distinct indices as required, the last one
\* just past the truncated keys
C13_Witness ==
    /\ TruncatedKeysCall
    /\ ~popped
    /\ NumAccounts = RequiredCount
    /\ DistinctIndices = RequiredCount
    /\ NumKeys = RequiredCount - 1
    /\ NumKeys > 0
    /\ result = InstructionKeyMismatch(program)

\* the instruction with only its first n account indices
FirstAccounts(n) == [instruction EXCEPT !.accounts = SubSeq(instruction.accounts, 1, n)]

\* the result of the decoder of prog for instr against keys
Decoded(prog, instr, keys) ==
    IF prog = "System" THEN parse_system(instr, keys).result
    ELSE parse_vote(instr, keys).result

\* a call whose instruction is one that decodes successfully with exactly
\* required_count account indices, with further indices appended
ExtendedCall ==
    /\ Returned
    /\ Parsable
    /\ LET n == RequiredCount
       IN /\ NumAccounts > n
          /\ Decoded(program, FirstAccounts(n), account_keys).kind = "ok"

\* the appended account indices are all < len(account_keys)
AppendedInBounds ==
    \A p \in RequiredCount + 1 .. NumAccounts : instruction.accounts[p] < NumKeys

\* C14 as stated: appending any further account indices to an instruction that
\* decodes successfully with exactly required_count indices does not change the
\* decode result.
C14_AnyAppendedIndicesIgnored ==
    ExtendedCall =>
        result = Decoded(program, FirstAccounts(RequiredCount), account_keys)

\* C14 amended: appended account indices that are all < len(account_keys) do
\* not change the decode result; an appended index >= len(account_keys) turns
\* it into key mismatch.
C14_AppendedInBoundsIndicesIgnored ==
    ExtendedCall =>
        IF AppendedInBounds
        THEN result = Decoded(program, FirstAccounts(RequiredCount), account_keys)
        ELSE result = InstructionKeyMismatch(program)

\* two appended indices in bounds, differing from the indices the arm uses
C14_Witness ==
    /\ ExtendedCall
    /\ ~popped
    /\ NumAccounts = RequiredCount + 2
    /\ AppendedInBounds
    /\ \A p \in 1 .. RequiredCount :
          instruction.accounts[p] # instruction.accounts[NumAccounts]
    /\ result.kind = "ok"

\* C15: a call that does not return a record returns InstructionNotParsable or
\* InstructionKeyMismatch carrying the program of the decoder that was called,
\* on each failure path: deserialization, the maximum-index check and the
\* arm's arity check.
C15_TwoErrorKindsTaggedWithProgram ==
    Returned =>
        /\ result.kind \in {"ok", "err"}
        /\ result.kind = "err" =>
              /\ result \in {InstructionNotParsable(program), InstructionKeyMismatch(program)}
              /\ result.program = program
        /\ IF ~Parsable THEN result = InstructionNotParsable(program)
           ELSE /\ ~AllInBounds => result = InstructionKeyMismatch(program)
                /\ (AllInBounds /\ NumAccounts < RequiredCount) =>
                      result = InstructionKeyMismatch(program)

\* parse_system failing at its arity check, after a call on the longer list
C15_Witness ==
    /\ Returned
    /\ program = "System"
    /\ popped
    /\ Parsable
    /\ AllInBounds
    /\ NumAccounts > 0
    /\ NumAccounts < RequiredCount
    /\ Performed("check_num_accounts")
    /\ result.kind = "err"
    /\ result.program = "System"

\* the fields of info that each variant fills from its payload
PayloadFieldNames(tag) ==
    CASE tag = "CreateAccount" -> {"lamports", "space", "owner"}
      [] tag = "Assign" -> {"owner"}
      [] tag = "Transfer" -> {"lamports"}
      [] tag = "CreateAccountWithSeed" -> {"base", "seed", "lamports", "space", "owner"}
      [] tag = "WithdrawNonceAccount" -> {"lamports"}
      [] tag = "InitializeNonceAccount" -> {"nonceAuthority"}
      [] tag = "AuthorizeNonceAccount" -> {"newAuthorized"}
      [] tag = "Allocate" -> {"space"}
      [] tag = "AllocateWithSeed" -> {"base", "seed", "space", "owner"}
      [] tag = "AssignWithSeed" -> {"base", "seed", "owner"}
      [] tag = "TransferWithSeed" -> {"lamports", "sourceSeed", "sourceOwner"}
      [] tag = "InitializeAccount" ->
            {"authorizedVoter", "authorizedWithdrawer", "commission"}
      [] tag = "Authorize" -> {"newAuthority", "authorityType"}
      [] tag = "Vote" -> {"vote"}
      [] tag = "Withdraw" -> {"lamports"}
      [] tag = "UpdateCommission" -> {"commission"}
      [] tag = "VoteSwitch" -> {"vote", "hash"}
      [] tag = "AuthorizeChecked" -> {"authorityType"}
      [] OTHER -> {}

\* the full field-name set of a variant's info: its roles and payload fields
InfoFieldNames(prog, tag) ==
    LET roles == IF prog = "System" THEN SystemRoles(tag) ELSE VoteRoles(tag)
    IN {roles[i] : i \in 1 .. Len(roles)} \cup PayloadFieldNames(tag)

\* the keys of the nested vote object
VoteFieldNames == {"slots", "hash", "timestamp"}

\* C16: a call returns either an error that holds no record, or a record whose
\* info holds exactly the field names of the decoded variant, whatever the
\* field values are (the nested vote keeps its timestamp key when the vote has
\* no timestamp); a failing call has read no account key, and every account key
\* of a record is read after the maximum-index check and the arity check.
C16_NoPartialOutput ==
    Returned =>
        /\ result.kind \in {"ok", "err"}
        /\ result.kind = "err" =>
              /\ DOMAIN result = {"kind", "error", "program"}
              /\ \A k \in 1 .. Len(trace) : ~IsIndexOp(trace[k])
        /\ result.kind = "ok" =>
              /\ Parsable
              /\ DOMAIN result = {"kind", "instruction_type", "info"}
              /\ DOMAIN result.info = InfoFieldNames(program, Variant.tag)
              /\ Variant.tag \in {"Vote", "VoteSwitch"} =>
                    DOMAIN result.info.vote = VoteFieldNames
              /\ \A k \in 1 .. Len(trace) :
                    IsIndexOp(trace[k]) =>
                        /\ \E j \in 1 .. k - 1 : trace[j].op = "max"
                        /\ \E j \in 1 .. k - 1 : trace[j].op = "check_num_accounts"

\* a decoded vote that has no timestamp
C16_Witness ==
    /\ Returned
    /\ program = "Vote"
    /\ Parsable
    /\ Variant.tag = "Vote"
    /\ ~Variant.vote.timestamp.some
    /\ result.kind = "ok"
    /\ result.info.vote.timestamp.null
    /\ "timestamp" \in DOMAIN result.info.vote

\* call c has returned
CallReturned(c) == calls[c].pc = "done"

\* calls c and d were given the same decoder, instruction and account keys
SameInputs(c, d) ==
    /\ calls[c].program = calls[d].program
    /\ calls[c].instruction = calls[d].instruction
    /\ calls[c].account_keys = calls[d].account_keys

\* C17: two calls of the same decoder with identical instruction and identical
\* account_keys, run one after the other or interleaved in any way, return
\* identical outcomes: the same record, or the same error kind and program.
C17_IdenticalCallsIdenticalOutcomes ==
    \A c, d \in Calls :
        (CallReturned(c) /\ CallReturned(d) /\ SameInputs(c, d)) =>
            calls[c].result = calls[d].result

\* two calls on the same instruction and keys that both failed at the match
\* on the maximum index
C17_Witness ==
    /\ \A c \in Calls : CallReturned(c)
    /\ SameInputs("a", "b")
    /\ calls["a"].decoded.ok
    /\ calls["a"].result = InstructionKeyMismatch(calls["a"].program)
    /\ calls["b"].result = InstructionKeyMismatch(calls["b"].program)
    /\ Len(calls["a"].instruction.accounts) = MaxCallAccounts

\* C19: in every interleaving of the steps of the running calls, a call that
\* has returned holds the result of running that call alone on its own
\* inputs and has not panicked, and every step changes the frame of one call
\* only and leaves every call's decoder, instruction and account_keys, and
\* everything outside the frames, as they were.
C19_CallsIndependent ==
    /\ [](\A c \in Calls :
              CallReturned(c) =>
                  /\ calls[c].result.kind \in {"ok", "err"}
                  /\ calls[c].result =
                        Decoded(calls[c].program, calls[c].instruction, calls[c].account_keys))
    /\ [][/\ \A c \in Calls :
                /\ calls'[c].program = calls[c].program
                /\ calls'[c].instruction = calls[c].instruction
                /\ calls'[c].account_keys = calls[c].account_keys
          /\ Cardinality({c \in Calls : calls'[c] # calls[c]}) <= 1
          /\ UNCHANGED SingleCallVars]_vars

\* both decoders returned a record, for account indices in opposite orders
C19_Witness ==
    /\ \A c \in Calls : CallReturned(c) /\ calls[c].result.kind = "ok"
    /\ calls["a"].program = "System"
    /\ calls["b"].program = "Vote"
    /\ calls["a"].instruction.accounts = <<0, 1>>
    /\ calls["b"].instruction.accounts = <<1, 0>>

\* C18: every call returns: whatever the instruction and the account keys, and
\* however the running calls are interleaved, each call eventually holds a
\* record or a decode error, and once returned it stays returned.
C18_EveryCallReturns ==
    \A c \in Calls :
        <>[](CallReturned(c) /\ calls[c].result.kind \in {"ok", "err"})

\* a call that scanned the longest account-index list and returned
C18_Witness ==
    \E c \in Calls :
        /\ CallReturned(c)
        /\ calls[c].cursor = MaxCallAccounts
        /\ MaxCallAccounts > 0
        /\ calls[c].result.kind \in {"ok", "err"}

\* the tests' transfer: system_instruction::transfer(A, B, 55), whose message
\* lists A at index 0 and B at index 1
TransferCall ==
    /\ Returned
    /\ program = "System"
    /\ instruction.accounts = <<0, 1>>
    /\ instruction.data = serialize("System", [tag |-> "Transfer", lamports |-> 55])

\* C20: the transfer of 55 lamports with account indices [0, 1] decodes against
\* [A, B] to instruction_type "transfer" with info exactly source A, destination
\* B, lamports 55; decoded against [A] it fails with InstructionKeyMismatch.
C20_TransferScenario ==
    TransferCall =>
        /\ account_keys = <<MessageKey(1), MessageKey(2)>> =>
              result = ParsedInstructionEnum("transfer",
                          [source |-> PubkeyToString(MessageKey(1)),
                           destination |-> PubkeyToString(MessageKey(2)),
                           lamports |-> 55])
        /\ account_keys = <<MessageKey(1)>> =>
              result = InstructionKeyMismatch("System")

\* the transfer decoded against both of its keys
C20_Witness ==
    /\ TransferCall
    /\ ~popped
    /\ account_keys = <<MessageKey(1), MessageKey(2)>>
    /\ result.kind = "ok"
    /\ result.info.destination = PubkeyToString(MessageKey(2))

\* a returned parse_vote call on a payload that decodes to Vote or VoteSwitch
VoteCall ==
    /\ Returned
    /\ program = "Vote"
    /\ Parsable
    /\ Variant.tag \in {"Vote", "VoteSwitch"}

\* the tests' vote: slots [1, 2, 4], hash H, timestamp 1234567890
TestVote == [slots |-> <<1, 2, 4>>, hash |-> VoteHash, timestamp |-> Some(1234567890)]

\* C21: a Vote or VoteSwitch payload decodes, when it decodes, to an info whose
\* "vote" is a nested mapping with exactly the keys slots, hash, timestamp, the
\* slots in payload order and none of the three keys of the vote flattened into
\* info; VoteSwitch carries in info a "hash" that is the proof hash, whatever
\* vote.hash is.  The vote with slots [1, 2, 4], hash H and timestamp 1234567890
\* decodes with at least 4 account indices, all in bounds, to those exact nested
\* values, and fails with InstructionKeyMismatch with 3 account indices or with
\* an index that the keys do not reach.
C21_VoteProjectedNested ==
    VoteCall =>
        LET v == Variant
        IN /\ result.kind = "ok" =>
                 /\ DOMAIN result.info.vote = VoteFieldNames
                 /\ result.info.vote.slots = v.vote.slots
                 /\ result.info.vote.hash = HashToString(v.vote.hash)
                 /\ result.info.vote.timestamp = JsonOption(v.vote.timestamp)
                 /\ {"slots", "timestamp"} \cap DOMAIN result.info = {}
                 /\ IF v.tag = "VoteSwitch"
                    THEN /\ result.info.hash = HashToString(v.proof_hash)
                         /\ result.info.hash # result.info.vote.hash
                    ELSE "hash" \notin DOMAIN result.info
           /\ (v.tag = "Vote" /\ v.vote = TestVote) =>
                 IF NumAccounts >= 4 /\ AllInBounds
                 THEN /\ result.kind = "ok"
                      /\ result.instruction_type = "vote"
                      /\ result.info.vote =
                            [slots |-> <<1, 2, 4>>, hash |-> HashToString(VoteHash),
                             timestamp |-> [null |-> FALSE, number |-> 1234567890]]
                 ELSE result = InstructionKeyMismatch("Vote")

\* the tests' vote decoded with exactly 4 account indices
C21_Witness ==
    /\ VoteCall
    /\ Variant.tag = "Vote"
    /\ Variant.vote = TestVote
    /\ NumAccounts = 4
    /\ result.kind = "ok"
    /\ result.info.vote.slots = <<1, 2, 4>>

\* the instruction_type of the arm that matches the variant tag
ArmType(prog, tag) ==
    IF prog = "System" THEN SystemInstructionType([tag |-> tag])
    ELSE VoteInstructionType([tag |-> tag])

\* the variants of the schema of prog
SchemaTags(prog) == IF prog = "System" THEN SystemTags ELSE VoteTags

\* C22: the schema of parse_system has 13 variants and that of parse_vote 8,
\* each the variant of exactly one position of the enum; a payload that decodes
\* to any of them, with enough account indices, all in bounds, is handled by
\* the arm of its variant and by no fallback: the call returns a record, and
\* the variant decoded is the only variant of the program whose arm gives the
\* record's instruction_type.
C22_ExhaustiveInjectiveDispatch ==
    /\ Cardinality(SchemaTags("System")) = 13
    /\ Cardinality(SchemaTags("Vote")) = 8
    /\ \A prog \in Programs :
          SchemaTags(prog) = {VariantOrder(prog)[n] : n \in 1 .. Len(VariantOrder(prog))}
    /\ (Returned /\ Parsable) =>
          LET tag == Variant.tag
          IN /\ tag \in SchemaTags(program)
             /\ (AllInBounds /\ NumAccounts >= RequiredCount) =>
                   /\ result.kind = "ok"
                   /\ result.instruction_type = ArmType(program, tag)
                   /\ {t \in SchemaTags(program) :
                          ArmType(program, t) = result.instruction_type} = {tag}

\* the last variant of the larger schema, decoded by its own arm
C22_Witness ==
    /\ Returned
    /\ program = "System"
    /\ Parsable
    /\ Variant.tag = "AssignWithSeed"
    /\ result.kind = "ok"
    /\ result.instruction_type = "assignWithSeed"

\* C23: a call returns a record if and only if the payload deserializes,
\* instruction.accounts is not empty, every account index is < len(account_keys)
\* and there are at least as many account indices as the arm of the decoded
\* variant checks; a payload that does not deserialize gives
\* InstructionNotParsable, and a payload that does, with one of the other
\* conditions failing, gives InstructionKeyMismatch.
C23_SuccessCharacterised ==
    Returned =>
        IF ~Parsable THEN result = InstructionNotParsable(program)
        ELSE IF NumAccounts > 0 /\ AllInBounds /\ NumAccounts >= RequiredCount
        THEN result.kind = "ok"
        ELSE result = InstructionKeyMismatch(program)

\* a record returned with exactly the checked number of account indices, one of
\* them the last valid index of the keys
C23_Witness ==
    /\ Returned
    /\ Parsable
    /\ NumAccounts = RequiredCount
    /\ NumKeys > 1
    /\ \E p \in 1 .. NumAccounts : instruction.accounts[p] = NumKeys - 1
    /\ result.kind = "ok"

\* C24: a payload that deserializes, with an empty account-index list, gives
\* InstructionKeyMismatch tagged with the decoder's program for every variant
\* and every account_keys slice, empty or not; and no variant could decode
\* from zero accounts, since the arm of every variant checks at least one.
C24_NoAccountsIsKeyMismatch ==
    (Returned /\ NumAccounts = 0 /\ Parsable) =>
        /\ result = InstructionKeyMismatch(program)
        /\ RequiredCount >= 1
        /\ ~check_num_accounts(instruction.accounts, RequiredCount, program).ok

\* an instruction without accounts, never shortened, decoded against all keys
C24_Witness ==
    /\ Returned
    /\ ~popped
    /\ Parsable
    /\ NumAccounts = 0
    /\ NumKeys = MaxKeys
    /\ RequiredCount = 1
    /\ result.kind = "err"
    /\ result.error = "InstructionKeyMismatch"

\* the account roles of the decoded variant, in table order
Roles == IF program = "System" THEN SystemRoles(Variant.tag) ELSE VoteRoles(Variant.tag)

\* a returned parse_system call on the transfer of 55 lamports
TransferDecoded ==
    /\ Returned
    /\ program = "System"
    /\ Parsable
    /\ Variant.tag = "Transfer"

\* C25: a payload that deserializes, with at least the checked number of
\* account indices, all < len(account_keys), decodes to a record whatever
\* indices repeat and in whatever order they come, each role resolved by its
\* own position; so a transfer with indices [0, 0] against [A] has source =
\* destination = A, and with indices [1, 0] against [A, B] has source = B and
\* destination = A.
C25_DuplicatesAndAnyOrderAccepted ==
    (Returned /\ AllInBounds /\ Parsable) =>
        /\ NumAccounts >= RequiredCount =>
              /\ result.kind = "ok"
              /\ LET roles == Roles
                 IN \A i \in 0 .. Len(roles) - 1 :
                       result.info[roles[i + 1]] = KeyAtPosition(i)
        /\ (TransferDecoded /\ instruction.accounts = <<0, 0>>
                /\ account_keys = <<MessageKey(1)>>) =>
              /\ result.kind = "ok"
              /\ result.info.source = PubkeyToString(MessageKey(1))
              /\ result.info.destination = PubkeyToString(MessageKey(1))
        /\ (TransferDecoded /\ instruction.accounts = <<1, 0>>
                /\ account_keys = <<MessageKey(1), MessageKey(2)>>) =>
              /\ result.kind = "ok"
              /\ result.info.source = PubkeyToString(MessageKey(2))
              /\ result.info.destination = PubkeyToString(MessageKey(1))

\* a record decoded from a list that repeats an index and descends, against
\* exactly max(index) + 1 keys
C25_Witness ==
    /\ Returned
    /\ Parsable
    /\ NumAccounts = RequiredCount
    /\ NumAccounts >= 3
    /\ DistinctIndices < NumAccounts
    /\ instruction.accounts[1] > instruction.accounts[2]
    /\ NumKeys = SeqMax(instruction.accounts) + 1
    /\ result.kind = "ok"

\* the variants whose arm requires an account at position 1 and projects only
\* the account at position 0
BaseInPayloadTags == {"AllocateWithSeed", "AssignWithSeed"}

\* the instruction with the account index at 0-based position i replaced by x
WithAccount(i, x) == [instruction EXCEPT !.accounts[i + 1] = x]

\* C26: the record of a successful decode does not depend on the account index
\* at any position >= the number of roles of the decoded variant: replacing it
\* by any other index < len(account_keys) gives the same record.  For
\* AllocateWithSeed and AssignWithSeed that includes position 1, which must be
\* present and in bounds (InstructionKeyMismatch otherwise), and "base" is the
\* base identifier of the payload, not the key of the account at position 1.
C26_UnprojectedPositionsIgnored ==
    (Returned /\ Parsable) =>
        LET v == Variant
        IN /\ result.kind = "ok" =>
                 \A i \in Len(Roles) .. NumAccounts - 1 :
                     \A x \in 0 .. NumKeys - 1 :
                         Decoded(program, WithAccount(i, x), account_keys) = result
           /\ (program = "System" /\ v.tag \in BaseInPayloadTags) =>
                 IF NumAccounts >= 2 /\ AllInBounds
                 THEN /\ result.kind = "ok"
                      /\ DOMAIN result.info \cap {"account", "base"} = {"account", "base"}
                      /\ result.info.account = KeyAtPosition(0)
                      /\ result.info.base = PubkeyToString(v.base)
                 ELSE result = InstructionKeyMismatch("System")

\* an allocate_with_seed or assign_with_seed record whose base is not the key
\* of the account at position 1
C26_Witness ==
    /\ Returned
    /\ program = "System"
    /\ Parsable
    /\ Variant.tag \in BaseInPayloadTags
    /\ NumAccounts = 2
    /\ result.kind = "ok"
    /\ result.info.base # KeyAtPosition(1)
    /\ result.info.account # KeyAtPosition(1)

====
